---- MODULE Spec2Model ----
(***************************************************************************)
(* Model of scripts/helpers/decode-xcm-generic.ts: the generic             *)
(* multi-version XCM decoder.                                              *)
(*                                                                         *)
(*   decodeMessageIntoFragmentVec  the splitter loop over the byte buffer  *)
(*   hexToU8aSafe / isHex / hexToU8a  the hex-string input path            *)
(*   unwrapVersionedXcm            version discriminant -> instructions    *)
(*   classifyInstruction           instruction tag -> label                *)
(*                                                                         *)
(* provider.createType is a parameter of the decoder (provider: any): its  *)
(* answer to each (type name, bytes) is chosen by the environment, and it  *)
(* answers identical requests identically (the variable provider records   *)
(* the answers given so far).                                              *)
(***************************************************************************)
EXTENDS Integers, Sequences, FiniteSets, TLC

\* ---------------------------------------------------------------- bounds
\* longest input buffer (bytes)
MaxLen == 2
\* longest hex-string input (characters)
MaxStrLen == 4
\* cap on the length of the output list (the loop itself has none)
MaxFragments == 3
\* longest instruction payload of a versioned message
MaxInstrs == 2
\* most tag predicates that hold of one duck-typed instruction
MaxTags == 2

\* ---------------------------------------------------------------- helpers
SeqsUpTo(S, n) == UNION {[1..k -> S] : k \in 0..n}

\* the byte values a directly supplied buffer or a re-encoding holds
Byte == {0, 1}

\* JavaScript's undefined
Undefined == "<undefined>"

\* ------------------------------------------------------- @polkadot/util hex
Chars == {"0", "1", "x", "g"}

isHexDigit(c) == c \in {"0", "1", "2", "3", "4", "5", "6", "7", "8", "9",
                        "a", "b", "c", "d", "e", "f",
                        "A", "B", "C", "D", "E", "F"}

hexDigitValue(c) ==
  CASE c = "0" -> 0 [] c = "1" -> 1 [] c = "2" -> 2 [] c = "3" -> 3
    [] c = "4" -> 4 [] c = "5" -> 5 [] c = "6" -> 6 [] c = "7" -> 7
    [] c = "8" -> 8 [] c = "9" -> 9
    [] c \in {"a", "A"} -> 10 [] c \in {"b", "B"} -> 11
    [] c \in {"c", "C"} -> 12 [] c \in {"d", "D"} -> 13
    [] c \in {"e", "E"} -> 14 [] c \in {"f", "F"} -> 15
    [] OTHER -> 0

\* REGEX_HEX_PREFIXED = /^0x[\da-fA-F]+$/
regexHexPrefixed(s) ==
  /\ Len(s) >= 3
  /\ s[1] = "0"
  /\ s[2] = "x"
  /\ \A i \in 3..Len(s) : isHexDigit(s[i])

isHexIgnoringLength(s) == s = <<"0", "x">> \/ regexHexPrefixed(s)

isHexPrefixOptional(s) ==
  /\ Len(s) % 2 = 0
  /\ \/ s = <<"0", "x">>
     \/ regexHexPrefixed(s)
     \/ \A i \in 1..Len(s) : isHexDigit(s[i])

\* isHex(value) with the default bitLength = -1, ignoreLength = false
isHex(s) ==
  /\ s = <<"0", "x">> \/ regexHexPrefixed(s)
  /\ Len(s) % 2 = 0

hexStripPrefix(s) ==
  IF Len(s) >= 2 /\ s[1] = "0" /\ s[2] = "x" THEN SubSeq(s, 3, Len(s)) ELSE s

\* hexToU8a(value): two hex digits per byte, most significant first
hexToU8a(s) ==
  LET digits == hexStripPrefix(s)
      even   == IF Len(digits) % 2 = 0 THEN digits ELSE <<"0">> \o digits
  IN  [i \in 1..(Len(even) \div 2) |->
         16 * hexDigitValue(even[2 * i - 1]) + hexDigitValue(even[2 * i])]

InputFormatError == "Expected hex string for message input"

\* ------------------------------------------------ the decode capability
PrimarySchema == "XcmVersionedXcm"
FallbackSchema == "StagingXcmVersionedXcm"

\* what toU8a() of a decoded value may return: any bytes, up to one byte
\* longer than the longest buffer
Encodings == SeqsUpTo(Byte, MaxLen + 1)

\* e.message of the error createType throws for a type name: a string that
\* names the type, or undefined
ErrorMessages(schema) ==
  {Undefined,
   IF schema = PrimarySchema THEN "Unable to create XcmVersionedXcm"
   ELSE "Unable to create StagingXcmVersionedXcm"}

\* a createType outcome: a decoded value (with its re-encoding) or a throw
Decoded(e) == [ok |-> TRUE, u8a |-> e, message |-> Undefined]
Thrown(m) == [ok |-> FALSE, u8a |-> <<>>, message |-> m]
Outcomes(schema) ==
  {Decoded(e) : e \in Encodings} \cup {Thrown(m) : m \in ErrorMessages(schema)}

\* the decoded value a successful outcome carries
valueOf(o) == [u8a |-> o.u8a]

\* fragment.toU8a()
toU8a(fragment) == fragment.u8a

DefaultErrorLine == "Failed to decode XcmVersionedXcm"

\* ---------------------------------------------------------------- state
VARIABLES
  message,     \* the argument: [isString, val]
  pc,          \* position in decodeMessageIntoFragmentVec
  bytes,       \* const bytes
  remaining,   \* let remaining
  fragments,   \* const fragments
  e1,          \* the error caught from the primary attempt
  logged,      \* console.error lines
  returned,    \* the returned list
  thrown,      \* the error that left the function, or Undefined
  provider,    \* createType's answers so far: <<schema, bytes>> -> outcome
  calls,       \* history of the createType calls of this invocation
  phase,       \* concatenation scenario: which invocation is running
  inA, inB,    \* concatenation scenario: the two standalone inputs
  resA, resB,  \* concatenation scenario: their standalone results
  vxcm,        \* argument of unwrapVersionedXcm
  unwrapped,   \* its result
  instr,       \* argument of classifyInstruction
  label        \* its result

splitterVars == <<message, pc, bytes, remaining, fragments, e1, logged,
                  returned, thrown, provider, calls>>
scenarioVars == <<phase, inA, inB, resA, resB>>
printerVars == <<vxcm, unwrapped, instr, label>>
vars == <<splitterVars, scenarioVars, printerVars>>

\* ---------------------------------------------------- unwrapVersionedXcm
\* A decoded message is duck-typed: a discriminant (the one isVk that holds,
\* or none of V1..V5) and the payload the matching asVk returns. A payload is
\* an array of instructions, or a non-array value wrapping one.
VersionTags == {"V1", "V2", "V3", "V4", "V5", "V6"}

\* [] : the empty array
EmptyArray == [wrapped |-> FALSE, items |-> <<>>]

\* Array.isArray(value)
isArray(value) == ~value.wrapped

isV(v, tag) == v.tag = tag

asV(v, tag) == v.payload

unwrapVersionedXcmMislabelled(v) ==
  IF isV(v, "V5") THEN [version |-> "V5", instructions |-> asV(v, "V5")]
  ELSE IF isV(v, "V4") THEN [version |-> "V4", instructions |-> asV(v, "V4")]
  ELSE IF isV(v, "V3") THEN [version |-> "V3", instructions |-> asV(v, "V3")]
  ELSE IF isV(v, "V2") THEN [version |-> "V3", instructions |-> asV(v, "V2")]
  ELSE IF isV(v, "V1") THEN [version |-> "V1", instructions |-> asV(v, "V1")]
  ELSE [version |-> "V5", instructions |-> EmptyArray]

unwrapVersionedXcm(v) ==
  IF isV(v, "V5") THEN [version |-> "V5", instructions |-> asV(v, "V5")]
  ELSE IF isV(v, "V4") THEN [version |-> "V4", instructions |-> asV(v, "V4")]
  ELSE IF isV(v, "V3") THEN [version |-> "V3", instructions |-> asV(v, "V3")]
  ELSE IF isV(v, "V2") THEN [version |-> "V2", instructions |-> asV(v, "V2")]
  ELSE IF isV(v, "V1") THEN
    \* Array.isArray(v1) ? v1 : (v1 as any[])  -- the cast changes nothing
    LET v1 == asV(v, "V1")
    IN  [version |-> "V1", instructions |-> IF isArray(v1) THEN v1 ELSE v1]
  ELSE [version |-> "V5", instructions |-> EmptyArray]

\* --------------------------------------------------- classifyInstruction
\* An instruction is duck-typed: the set of tags X whose predicate isX holds.
TableTags ==
  {"ReserveAssetDeposited", "DepositAsset", "WithdrawAsset", "BuyExecution",
   "Transact", "DescendOrigin", "SetAppendix", "ExpectTransactStatus",
   "ReportTransactStatus", "SetTopic", "ClearTopic", "ExchangeAsset",
   "DepositReserveAsset", "TransferAsset", "TransferReserveAsset"}

InstrTags == TableTags \cup {"ClearOrigin", "RefundSurplus"}

is(i, tag) == tag \in i.tags

classifyInstructionReordered(i) ==
  IF is(i, "DepositAsset") THEN "Deposit Asset"
  ELSE IF is(i, "ReserveAssetDeposited") THEN "Reserve Asset Deposited"
  ELSE IF is(i, "WithdrawAsset") THEN "Withdraw Asset"
  ELSE IF is(i, "BuyExecution") THEN "Buy Execution"
  ELSE IF is(i, "Transact") THEN "Transact"
  ELSE IF is(i, "DescendOrigin") THEN "Descend Origin"
  ELSE IF is(i, "SetAppendix") THEN "Set Appendix"
  ELSE IF is(i, "ExpectTransactStatus") THEN "Expect Transact Status"
  ELSE IF is(i, "ReportTransactStatus") THEN "Report Transact Status"
  ELSE IF is(i, "SetTopic") THEN "Set Topic"
  ELSE IF is(i, "ClearTopic") THEN "Clear Topic"
  ELSE IF is(i, "ExchangeAsset") THEN "Exchange Asset"
  ELSE IF is(i, "DepositReserveAsset") THEN "Deposit Reserve Asset"
  ELSE IF is(i, "TransferAsset") THEN "Transfer Asset"
  ELSE IF is(i, "TransferReserveAsset") THEN "Transfer Reserve Asset"
  ELSE Undefined

classifyInstruction(i) ==
  IF is(i, "ReserveAssetDeposited") THEN "Reserve Asset Deposited"
  ELSE IF is(i, "DepositAsset") THEN "Deposit Asset"
  ELSE IF is(i, "WithdrawAsset") THEN "Withdraw Asset"
  ELSE IF is(i, "BuyExecution") THEN "Buy Execution"
  ELSE IF is(i, "Transact") THEN "Transact"
  ELSE IF is(i, "DescendOrigin") THEN "Descend Origin"
  ELSE IF is(i, "SetAppendix") THEN "Set Appendix"
  ELSE IF is(i, "ExpectTransactStatus") THEN "Expect Transact Status"
  ELSE IF is(i, "ReportTransactStatus") THEN "Report Transact Status"
  ELSE IF is(i, "SetTopic") THEN "Set Topic"
  ELSE IF is(i, "ClearTopic") THEN "Clear Topic"
  ELSE IF is(i, "ExchangeAsset") THEN "Exchange Asset"
  ELSE IF is(i, "DepositReserveAsset") THEN "Deposit Reserve Asset"
  ELSE IF is(i, "TransferAsset") THEN "Transfer Asset"
  ELSE IF is(i, "TransferReserveAsset") THEN "Transfer Reserve Asset"
  ELSE Undefined

\* ------------------------------------------------------ Uint8Array helpers
sliceOffByOne(s, n) == SubSeq(s, n + 2, Len(s))

\* Uint8Array.prototype.slice(n) for n >= 0: drop the first n elements
slice(s, n) == SubSeq(s, n + 1, Len(s))

errorLinePrimaryFirst(m2, m1) ==
  IF m1 # Undefined THEN m1 ELSE IF m2 # Undefined THEN m2 ELSE DefaultErrorLine

\* e2?.message ?? e1?.message ?? "Failed to decode XcmVersionedXcm"
errorLine(m2, m1) ==
  IF m2 # Undefined THEN m2 ELSE IF m1 # Undefined THEN m1 ELSE DefaultErrorLine

\* --------------------------------------------- decodeMessageIntoFragmentVec
\* provider.createType(schema, data) answers o
createType(schema, data, o) ==
  LET key == <<schema, data>>
  IN  /\ o \in Outcomes(schema)
      /\ key \in DOMAIN provider => o = provider[key]
      /\ provider' = IF key \in DOMAIN provider THEN provider
                     ELSE provider @@ (key :> o)
      /\ calls' = Append(calls, [schema |-> schema, data |-> data, outcome |-> o])

\* fragments.push(fragment); remaining = remaining.slice(fragment.toU8a().length)
pushAndConsume(fragment) ==
  /\ fragments' = Append(fragments, fragment)
  /\ remaining' = slice(remaining, Len(toU8a(fragment)))

\* entry: bytes = typeof message === "string" ? hexToU8aSafe(message) : message
Enter ==
  /\ pc = "entry"
  /\ IF message.isString /\ ~isHex(message.val)
       THEN /\ pc' = "threw"
            /\ thrown' = InputFormatError
            /\ UNCHANGED <<bytes, remaining, fragments>>
       ELSE /\ bytes' = IF message.isString THEN hexToU8a(message.val)
                        ELSE message.val
            /\ fragments' = <<>>
            /\ remaining' = bytes'
            /\ pc' = "loop"
            /\ UNCHANGED thrown
  /\ UNCHANGED <<message, e1, logged, returned, provider, calls>>
  /\ UNCHANGED <<scenarioVars, printerVars>>

\* while (remaining.length !== 0) is false: return fragments
ReturnFragments ==
  /\ pc = "loop"
  /\ remaining = <<>>
  /\ returned' = fragments
  /\ pc' = "done"
  /\ UNCHANGED <<message, bytes, remaining, fragments, e1, logged, thrown,
                 provider, calls>>
  /\ UNCHANGED <<scenarioVars, printerVars>>

\* try { fragment = provider.createType("XcmVersionedXcm", remaining) }
TryPrimary ==
  /\ pc = "loop"
  /\ remaining # <<>>
  /\ Len(fragments) < MaxFragments
  /\ \E o \in Outcomes(PrimarySchema) :
       /\ createType(PrimarySchema, remaining, o)
       /\ IF o.ok
            THEN /\ pushAndConsume(valueOf(o))
                 /\ pc' = "loop"
                 /\ UNCHANGED e1
            ELSE /\ e1' = o.message
                 /\ pc' = "catch"
                 /\ UNCHANGED <<fragments, remaining>>
  /\ UNCHANGED <<message, bytes, logged, returned, thrown>>
  /\ UNCHANGED <<scenarioVars, printerVars>>

TryFallbackRethrow ==
  /\ pc = "catch"
  /\ \E o \in Outcomes(FallbackSchema) :
       /\ createType(FallbackSchema, remaining, o)
       /\ IF o.ok
            THEN /\ pushAndConsume(valueOf(o))
                 /\ pc' = "loop"
                 /\ UNCHANGED <<logged, returned, thrown>>
            ELSE /\ thrown' = errorLine(o.message, e1)
                 /\ pc' = "threw"
                 /\ UNCHANGED <<fragments, remaining, logged, returned>>
  /\ e1' = Undefined
  /\ UNCHANGED <<message, bytes>>
  /\ UNCHANGED <<scenarioVars, printerVars>>

\* catch (e1) { try { fragment = provider.createType("StagingXcmVersionedXcm",
\* remaining) } catch (e2) { console.error(...); break } } ... return fragments
TryFallback ==
  /\ pc = "catch"
  /\ \E o \in Outcomes(FallbackSchema) :
       /\ createType(FallbackSchema, remaining, o)
       /\ IF o.ok
            THEN /\ pushAndConsume(valueOf(o))
                 /\ pc' = "loop"
                 /\ UNCHANGED <<logged, returned>>
            ELSE /\ logged' = Append(logged, errorLine(o.message, e1))
                 /\ returned' = fragments
                 /\ pc' = "done"
                 /\ UNCHANGED <<fragments, remaining>>
  /\ e1' = Undefined
  /\ UNCHANGED <<message, bytes, thrown>>
  /\ UNCHANGED <<scenarioVars, printerVars>>

\* ------------------------------------------------------------ the inputs
ByteInputs == [isString : {FALSE}, val : SeqsUpTo(Byte, MaxLen)]
StringInputs == [isString : {TRUE}, val : SeqsUpTo(Chars, MaxStrLen)]

NoVxcm == [tag |-> "none", payload |-> EmptyArray]
NoUnwrapped == [version |-> "none", instructions |-> EmptyArray]
NoInstr == [tags |-> {}]

SplitterInit(m) ==
  /\ message = m
  /\ bytes = <<>>
  /\ remaining = <<>>
  /\ fragments = <<>>
  /\ e1 = Undefined
  /\ logged = <<>>
  /\ returned = <<>>
  /\ thrown = Undefined
  /\ provider = <<>>
  /\ calls = <<>>

ScenarioIdle ==
  /\ phase = 0
  /\ inA = <<>>
  /\ inB = <<>>
  /\ resA = <<>>
  /\ resB = <<>>

PrinterIdle ==
  /\ vxcm = NoVxcm
  /\ unwrapped = NoUnwrapped
  /\ instr = NoInstr
  /\ label = Undefined

Init ==
  /\ \E m \in ByteInputs \cup StringInputs : SplitterInit(m)
  /\ pc = "entry"
  /\ ScenarioIdle
  /\ PrinterIdle

Next ==
  \/ Enter
  \/ TryPrimary
  \/ TryFallback
  \/ ReturnFragments

Spec == Init /\ [][Next]_vars

\* ------------------------------------------------ concatenation scenario
\* One provider, three invocations: on A, on B, then on A followed by B. The
\* scenario goes on to the next invocation only when the one that ended
\* decoded its input to exactly one message whose re-encoding has the length
\* of the input (it consumed the whole input and no more).
NonEmptyInputs == SeqsUpTo(Byte, MaxLen) \ {<<>>}

InitConcat ==
  /\ \E a \in NonEmptyInputs, b \in NonEmptyInputs :
       /\ Len(a) + Len(b) <= MaxLen
       /\ SplitterInit([isString |-> FALSE, val |-> a])
       /\ inA = a
       /\ inB = b
  /\ pc = "entry"
  /\ phase = 1
  /\ resA = <<>>
  /\ resB = <<>>
  /\ PrinterIdle

\* the caller calls decodeMessageIntoFragmentVec(provider, ...) again
NextInvocation ==
  /\ phase \in {1, 2}
  /\ pc = "done"
  /\ Len(returned) = 1
  /\ Len(toU8a(returned[1])) = Len(bytes)
  /\ phase' = phase + 1
  /\ IF phase = 1
       THEN /\ resA' = returned
            /\ resB' = resB
            /\ message' = [isString |-> FALSE, val |-> inB]
       ELSE /\ resB' = returned
            /\ resA' = resA
            /\ message' = [isString |-> FALSE, val |-> inA \o inB]
  /\ pc' = "entry"
  /\ bytes' = <<>>
  /\ remaining' = <<>>
  /\ fragments' = <<>>
  /\ e1' = Undefined
  /\ logged' = <<>>
  /\ returned' = <<>>
  /\ calls' = <<>>
  /\ UNCHANGED <<thrown, provider, inA, inB, printerVars>>

NextConcat ==
  \/ Enter
  \/ TryPrimary
  \/ TryFallback
  \/ ReturnFragments
  \/ NextInvocation

SpecConcat == InitConcat /\ [][NextConcat]_vars

\* -------------------------------------------- the printer's two functions
\* decodeXCMGeneric applies unwrapVersionedXcm to each fragment and
\* classifyInstruction to each instruction; each is a pure function, applied
\* here to every input of a bounded set.
Instructions == {[tags |-> t] : t \in {t \in SUBSET InstrTags : Cardinality(t) <= MaxTags}}

SampleInstructions ==
  {[tags |-> {"DepositAsset"}], [tags |-> {"Transact"}], [tags |-> {"ClearOrigin"}]}

Payloads == [wrapped : BOOLEAN, items : SeqsUpTo(SampleInstructions, MaxInstrs)]

Vxcms == [tag : VersionTags, payload : Payloads]

SplitterIdle ==
  /\ SplitterInit([isString |-> FALSE, val |-> <<>>])
  /\ ScenarioIdle

InitUnwrap ==
  /\ SplitterIdle
  /\ pc = "unwrap"
  /\ vxcm \in Vxcms
  /\ unwrapped = NoUnwrapped
  /\ instr = NoInstr
  /\ label = Undefined

\* const { version, instructions } = unwrapVersionedXcm(fragment)
Unwrap ==
  /\ pc = "unwrap"
  /\ unwrapped' = unwrapVersionedXcm(vxcm)
  /\ pc' = "unwrapped"
  /\ UNCHANGED <<message, bytes, remaining, fragments, e1, logged, returned,
                 thrown, provider, calls>>
  /\ UNCHANGED <<scenarioVars, vxcm, instr, label>>

NextUnwrap == Unwrap

SpecUnwrap == InitUnwrap /\ [][NextUnwrap]_vars

InitClassify ==
  /\ SplitterIdle
  /\ pc = "classify"
  /\ vxcm = NoVxcm
  /\ unwrapped = NoUnwrapped
  /\ instr \in Instructions
  /\ label = Undefined

\* const label = classifyInstruction(instruction)
Classify ==
  /\ pc = "classify"
  /\ label' = classifyInstruction(instr)
  /\ pc' = "classified"
  /\ UNCHANGED <<message, bytes, remaining, fragments, e1, logged, returned,
                 thrown, provider, calls>>
  /\ UNCHANGED <<scenarioVars, vxcm, unwrapped, instr>>

NextClassify == Classify

SpecClassify == InitClassify /\ [][NextClassify]_vars

\* ============================================================ properties
lastCall == calls[Len(calls)]

\* the decoded values of the successful createType calls, in call order
RECURSIVE okValues(_)
okValues(cs) ==
  IF cs = <<>> THEN <<>>
  ELSE IF cs[1].outcome.ok
         THEN <<valueOf(cs[1].outcome)>> \o okValues(Tail(cs))
         ELSE okValues(Tail(cs))

\* the concatenation of the re-encodings of a list of decoded values
RECURSIVE reencoded(_)
reencoded(fs) ==
  IF fs = <<>> THEN <<>> ELSE toU8a(fs[1]) \o reencoded(Tail(fs))

\* the last decode attempt failed under the primary and then the fallback schema
bothSchemasFailed ==
  /\ Len(calls) >= 2
  /\ lastCall.schema = FallbackSchema
  /\ ~lastCall.outcome.ok

inSplitter == pc \in {"loop", "catch", "done"}

\* C1: when the decode of the remaining bytes fails under both schemas the
\* call returns normally (nothing is thrown) and the returned list is exactly
\* the messages decoded in the earlier iterations, in their order.
C1_FailureReturnsPartialList ==
  bothSchemasFailed =>
    /\ pc = "done"
    /\ thrown = Undefined
    /\ returned = okValues(calls)
    /\ returned = fragments

C1_Witness ==
  /\ bothSchemasFailed
  /\ pc = "done"
  /\ Len(returned) >= 1

\* C3: after every iteration the re-encodings of the output messages,
\* concatenated and followed by the remaining buffer, are the input bytes
\* (each re-encoding is the prefix the loop dropped, no longer than the buffer).
C3_ReencodingIsConsumedPrefix ==
  inSplitter => reencoded(fragments) \o remaining = bytes

\* C4: every successful iteration (one that appends a message) strictly
\* shortens the remaining buffer, whatever the decode capability answers.
C4_IterationShortensBuffer ==
  [][Len(fragments') > Len(fragments) => Len(remaining') < Len(remaining)]_vars

\* a string that, after an optional 0x prefix, has an odd number of characters
\* or a character that is no hex digit
malformedHex(s) ==
  LET digits == hexStripPrefix(s)
  IN  \/ Len(digits) % 2 = 1
      \/ \E i \in 1..Len(digits) : ~isHexDigit(digits[i])

\* C5: a string input with an odd number of hex digits or a non-hex character
\* fails with the input-format error before createType is called under any
\* schema, and no list is returned.
C5_MalformedHexFailsBeforeDecode ==
  (message.isString /\ malformedHex(message.val) /\ pc # "entry") =>
    /\ pc = "threw"
    /\ thrown = InputFormatError
    /\ calls = <<>>
    /\ provider = <<>>
    /\ returned = <<>>

C5_Witness ==
  /\ pc = "threw"
  /\ message.isString
  /\ message.val = <<"0", "x", "1">>

has0xPrefix(s) == Len(s) >= 2 /\ s[1] = "0" /\ s[2] = "x"

allHexDigits(s) == \A i \in 1..Len(s) : isHexDigit(s[i])

\* C6 as claimed: a string is accepted exactly when it is an optional 0x prefix
\* followed by an even number of hex digits (so unprefixed hex is accepted);
\* stated for the non-empty strings.
C6_PrefixOptional ==
  (message.isString /\ message.val # <<>> /\ pc # "entry") =>
    (pc # "threw" <=>
       LET digits == hexStripPrefix(message.val)
       IN  Len(digits) % 2 = 0 /\ allHexDigits(digits))

\* C6 amended: a string is accepted exactly when it is the 0x prefix followed
\* by an even number (possibly zero) of hex digits, and is then converted two
\* digits per byte; every other string, unprefixed hex included, is rejected
\* with the input-format error.
C6_PrefixRequired ==
  (message.isString /\ pc # "entry") =>
    LET s == message.val
        accepted == /\ has0xPrefix(s)
                    /\ Len(s) % 2 = 0
                    /\ allHexDigits(SubSeq(s, 3, Len(s)))
    IN  /\ accepted <=> pc # "threw"
        /\ ~accepted => thrown = InputFormatError /\ calls = <<>>
        /\ accepted =>
             /\ 2 * Len(bytes) = Len(s) - 2
             /\ \A i \in 1..Len(bytes) :
                  /\ bytes[i] \div 16 = hexDigitValue(s[2 * i + 1])
                  /\ bytes[i] % 16 = hexDigitValue(s[2 * i + 2])

C6_Witness ==
  /\ pc = "threw"
  /\ message.isString
  /\ message.val = <<"1", "1">>

\* C9: in each iteration the primary schema is tried first on the remaining
\* bytes; the fallback is tried only after a failed primary attempt, on the
\* same bytes, once; the iteration's message is the first success; when both
\* fail the logged error is the fallback's message if it has one, otherwise
\* the primary's.
C9_PrimaryThenFallback ==
  inSplitter =>
    /\ \A i \in 1..Len(calls) :
         LET c == calls[i]
         IN  /\ c.schema \in {PrimarySchema, FallbackSchema}
             /\ i = 1 => c.schema = PrimarySchema /\ c.data = bytes
             /\ (i > 1 /\ c.schema = PrimarySchema) =>
                  /\ calls[i - 1].outcome.ok
                  /\ \E k \in 0..Len(calls[i - 1].data) :
                       /\ k = Len(calls[i - 1].outcome.u8a) \/
                            (k = Len(calls[i - 1].data) /\ k < Len(calls[i - 1].outcome.u8a))
                       /\ c.data = SubSeq(calls[i - 1].data, k + 1, Len(calls[i - 1].data))
             /\ c.schema = FallbackSchema =>
                  /\ i > 1
                  /\ calls[i - 1].schema = PrimarySchema
                  /\ ~calls[i - 1].outcome.ok
                  /\ calls[i - 1].data = c.data
             /\ (~c.outcome.ok /\ i < Len(calls)) =>
                  c.schema = PrimarySchema /\ calls[i + 1].schema = FallbackSchema
    /\ fragments = okValues(calls)
    /\ pc = "catch" <=>
         (calls # <<>> /\ lastCall.schema = PrimarySchema /\ ~lastCall.outcome.ok)
    /\ bothSchemasFailed =>
         LET m2 == lastCall.outcome.message
             m1 == calls[Len(calls) - 1].outcome.message
         IN  /\ Len(logged) = 1
             /\ m2 # Undefined => logged[1] = m2
             /\ (m2 = Undefined /\ m1 # Undefined) => logged[1] = m1
    /\ ~bothSchemasFailed => logged = <<>>

C9_Witness ==
  /\ bothSchemasFailed
  /\ lastCall.outcome.message # Undefined
  /\ calls[Len(calls) - 1].outcome.message # Undefined
  /\ logged = <<lastCall.outcome.message>>
  /\ Len(fragments) = 1

C7_UnwrapByVersion ==
  pc = "unwrapped" =>
    IF vxcm.tag \in {"V1", "V2", "V3", "V4", "V5"}
      THEN /\ unwrapped.version = vxcm.tag
           /\ unwrapped.instructions = vxcm.payload
           /\ Len(unwrapped.instructions.items) = Len(vxcm.payload.items)
           /\ \A k \in 1..Len(vxcm.payload.items) :
                unwrapped.instructions.items[k] = vxcm.payload.items[k]
      ELSE /\ unwrapped.version = "V5"
           /\ isArray(unwrapped.instructions)
           /\ unwrapped.instructions.items = <<>>

C7_Witness ==
  /\ pc = "unwrapped"
  /\ vxcm.tag = "V2"
  /\ Len(vxcm.payload.items) = 2
  /\ vxcm.payload.items[1] # vxcm.payload.items[2]
  /\ unwrapped = [version |-> "V2", instructions |-> vxcm.payload]

\* C10: for a V1 message the returned instructions are the bare instruction
\* sequence both when the payload is a sequence and when it wraps one.
C10_V1PayloadNormalized ==
  (pc = "unwrapped" /\ vxcm.tag = "V1") =>
    /\ unwrapped.version = "V1"
    /\ isArray(unwrapped.instructions)
    /\ unwrapped.instructions.items = vxcm.payload.items

\* the fixed table of (tag, label) entries, in probing order
ClassificationTable ==
  << <<"ReserveAssetDeposited", "Reserve Asset Deposited">>,
     <<"DepositAsset", "Deposit Asset">>,
     <<"WithdrawAsset", "Withdraw Asset">>,
     <<"BuyExecution", "Buy Execution">>,
     <<"Transact", "Transact">>,
     <<"DescendOrigin", "Descend Origin">>,
     <<"SetAppendix", "Set Appendix">>,
     <<"ExpectTransactStatus", "Expect Transact Status">>,
     <<"ReportTransactStatus", "Report Transact Status">>,
     <<"SetTopic", "Set Topic">>,
     <<"ClearTopic", "Clear Topic">>,
     <<"ExchangeAsset", "Exchange Asset">>,
     <<"DepositReserveAsset", "Deposit Reserve Asset">>,
     <<"TransferAsset", "Transfer Asset">>,
     <<"TransferReserveAsset", "Transfer Reserve Asset">> >>

\* the direct tag-to-label lookup
directLabel(tag) ==
  IF \E k \in 1..Len(ClassificationTable) : ClassificationTable[k][1] = tag
    THEN ClassificationTable[CHOOSE k \in 1..Len(ClassificationTable) :
                               ClassificationTable[k][1] = tag][2]
    ELSE Undefined

\* C8: the label is that of the first table entry, in the fixed order, whose
\* tag predicate holds, and none when no predicate holds; for an instruction
\* with exactly one tag it is the direct tag-to-label lookup (DepositAsset
\* gives "Deposit Asset", a tag absent from the table gives none).
C8_FirstMatchInTableOrder ==
  pc = "classified" =>
    LET hits == {k \in 1..Len(ClassificationTable) :
                   is(instr, ClassificationTable[k][1])}
    IN  /\ hits = {} => label = Undefined
        /\ hits # {} =>
             label = ClassificationTable[CHOOSE k \in hits : \A j \in hits : k <= j][2]
        /\ \A tag \in InstrTags : instr.tags = {tag} => label = directLabel(tag)
        /\ instr.tags = {"DepositAsset"} => label = "Deposit Asset"
        /\ instr.tags = {"ClearOrigin"} => label = Undefined

C8_Witness ==
  /\ pc = "classified"
  /\ instr.tags = {"DepositAsset", "TransferAsset"}
  /\ label = "Deposit Asset"

====
